---- MODULE Spec2Model ----
(***************************************************************************)
(* State-machine model of the DaiSpan test harness:                        *)
(*   - DaiSpanPerformanceTester.stress_test  (scripts/performance_test.py) *)
(*   - DaiSpanMonitor.run_continuous_test    (scripts/long_term_test.py)   *)
(*   - DaiSpanPerformanceTester.comprehensive_test                         *)
(*   - MemoryFixTester._calculate_trend, _calculate_stability              *)
(*                                         (scripts/test_memory_fixes.py)  *)
(* Time is an integer clock `now`; requests, sleeps and thread scheduling  *)
(* are interleaved with the clock's advance.                               *)
(***************************************************************************)
EXTENDS Integers, Sequences, FiniteSets, TLC

\* ------------------------------------------------------------------ bounds
MaxWorkers  == 2    \* largest concurrent_requests explored
MaxDuration == 1    \* largest stress-test duration explored (clock units)
MaxReq      == 2    \* most requests the workers of one stress test issue in all
MaxTotalDuration == 2   \* largest total_duration explored (clock units)
MaxInterval == 2        \* largest interval explored (clock units)
MaxElapsed  == 2        \* longest one test cycle takes (clock units)
MaxFailures == 2        \* most failed page tests explored in one run
MaxSamples  == 2        \* most requests one monitor_dashboard call issues
MaxWorkerRequests == 1  \* most requests of one worker inside comprehensive_test
MaxValues   == 4        \* longest series of readings analysed
MaxChecks   == 2        \* most completed cycles of a monitor whose report is asked for
MaxReports  == 2        \* most calls of generate_report by one caller
MaxWait     == 1        \* longest time between such calls (clock units)

\* ------------------------------------------------------- program constants
NoResponse == 0     \* _get returned None (requests.RequestException)
HTTP_OK == 200
HTTP_NOT_FOUND == 404
HTTP_NO_CONTENT == 204   \* a status below 400 other than 200
HTTP_ERROR == 500   \* a status of 400 or more other than 404

\* what _get can hand back for one request
Responses == {NoResponse, HTTP_OK, HTTP_NO_CONTENT, HTTP_NOT_FOUND, HTTP_ERROR}

VARIABLES
    now,                  \* time.time()
    \* ---- DaiSpanPerformanceTester
    minimal_build,        \* self.minimal_build
    \* ---- stress_test
    concurrent_requests,  \* argument
    duration,             \* argument
    mpc,                  \* position of the calling thread in stress_test
    start_time,           \* start_time = time.time()
    started,              \* number of threads started so far (len(threads))
    joined,               \* number of threads joined so far
    wpc,                  \* position of each worker thread
    local_results,        \* each worker's local_results
    requests_sent,        \* ghost: requests each worker has issued
    result_queue,         \* queue.Queue(): sequence of the lists put
    all_results,          \* all_results
    stress_results,       \* the dict stress_test returns
    \* ---- DaiSpanMonitor.run_continuous_test
    total_duration,       \* duration_hours * 3600
    interval,             \* interval_minutes * 60
    spc,                  \* position in run_continuous_test
    end_time,             \* end_time = time.time() + total_duration
    sleep_time,           \* sleep_time = min(interval, remaining)
    page,                 \* run_single_test_cycle: index of the page under test
    cycle_results,        \* run_single_test_cycle: the cycle_results being built
    tests,                \* self.results["tests"]
    total_checks,         \* summary["total_checks"]
    successful_checks,    \* summary["successful_checks"]
    failed_checks,        \* summary["failed_checks"]
    errors,               \* len(summary["errors"])
    response_times,       \* len(summary["response_times"])
    memory_readings,      \* len(summary["memory_readings"])
    report,               \* what generate_report last wrote into self.results
    reports,              \* number of generate_report calls made so far
    returned,             \* what run_continuous_test returned
    \* ghosts of run_continuous_test
    cycles_started,       \* test cycles begun
    tick_start,           \* clock at the start of the last cycle begun
    collected,            \* clock units the last cycle begun has taken so far
    final_reports,        \* reports generated by the finally block
    busy,                 \* some test cycle has taken a clock unit or more
    exit_via,             \* how the loop was left
    \* ---- DaiSpanPerformanceTester.comprehensive_test
    cpc,                  \* position in comprehensive_test
    results,              \* the results dict being built
    monitoring_data,      \* monitor_dashboard: len(results)
    mon_start,            \* monitor_dashboard: start_time
    mon_requests,         \* monitor_dashboard: requests issued so far
    seen404,              \* ghost: endpoints that have answered 404 in this run
    after404,             \* ghost: endpoints requested again after their 404
    raised_in,            \* the function an exception escaped from, if any
    replies,              \* ghost: the replies to the requests of the last step
    \* ---- MemoryFixTester._analyze_memory_readings
    values,               \* free_heaps: the series analysed (units of 100 bytes)
    apc,                  \* position in the analysis
    memory_trend,         \* analysis["memory_trend"]
    memory_stability      \* analysis["memory_stability"]

stressVars == <<concurrent_requests, duration, mpc, start_time, started, joined,
                wpc, local_results, requests_sent, result_queue, all_results,
                stress_results>>

monitorVars == <<total_duration, interval, spc, end_time, sleep_time, page,
                 cycle_results, tests, total_checks, successful_checks,
                 failed_checks, errors, response_times, memory_readings, report,
                 reports, returned, cycles_started, tick_start, collected,
                 final_reports, busy, exit_via>>

compVars == <<cpc, results, monitoring_data, mon_start, mon_requests, seen404,
              after404, raised_in, replies>>

statsVars == <<values, apc, memory_trend, memory_stability>>

\* what stress_test and its workers never touch
outsideStress == <<monitorVars, compVars, statsVars>>

\* what run_continuous_test never touches
outsideMonitor == <<minimal_build, stressVars, compVars, statsVars>>

\* what comprehensive_test never touches
outsideComp == <<concurrent_requests, duration, mpc, start_time, started, joined,
                 wpc, local_results, requests_sent, result_queue, all_results,
                 monitorVars, statsVars>>

\* what the analysis of a series never touches
outsideStats == <<now, minimal_build, stressVars, monitorVars, compVars>>

vars == <<now, minimal_build, stressVars, monitorVars, compVars, statsVars>>

Workers == 1..MaxWorkers

\* ------------------------------------------------------------ helpers
RECURSIVE SumOver(_, _)
SumOver(f, S) ==
    IF S = {} THEN 0
    ELSE LET x == CHOOSE y \in S : TRUE IN f[x] + SumOver(f, S \ {x})


\* ------------------------------------------------------------ the clock
\* monitor_dashboard(duration=30), called by comprehensive_test, in clock
\* units of 10 seconds
MonitorDuration == 3
\* stress_test(concurrent_requests=3, duration=20), called by
\* comprehensive_test, in clock units of 10 seconds
StressWorkers == 3
StressDuration == 2

\* time.time() moves on; only the readings taken while a deadline is still
\* open can tell two clocks apart
Advance ==
    /\ \/ mpc \in {"spawn", "join"} /\ now - start_time < duration
       \/ cpc \in {"monitor_loop", "monitor_request"}
            /\ now - mon_start < MonitorDuration
       \/ spc = "caller" /\ now < MaxWait
    /\ now' = now + 1
    /\ UNCHANGED <<minimal_build, stressVars, monitorVars, compVars, statsVars>>

\* ------------------------------------------------------ stress_test.worker
\* the three shapes of entry a worker appends to local_results; the field
\* status is a ghost, the status of the response the entry was made from
FailedResult ==
    [success |-> FALSE, error |-> "request failed", status |-> NoResponse]
DisabledResult ==
    [success |-> FALSE, error |-> "api disabled", status |-> HTTP_NOT_FOUND]

\* mutant: every response that is truthy counts as a success
TimedResultTruthy(status, request_time) ==
    [success |-> (status < 400), error |-> "none", status |-> status,
     response_time |-> request_time]

\* 'success': response.status_code == 200, 'response_time': request_time
TimedResult(status, request_time) ==
    [success |-> (status = HTTP_OK), error |-> "none", status |-> status,
     response_time |-> request_time]

\* mutant: the loop condition does not look at the clock
DeadlineIgnoresClock == 0 < duration

\* mutant: the loop condition still holds at the deadline itself
DeadlineInclusive == now - start_time <= duration

\* while time.time() - start_time < duration
DeadlineOpen == now - start_time < duration

\* the worker evaluates the loop condition
WorkerLoop(w) ==
    /\ wpc[w] = "loop"
    /\ IF DeadlineOpen
         THEN /\ SumOver(requests_sent, Workers) < MaxReq
              /\ wpc' = [wpc EXCEPT ![w] = "request"]
         ELSE wpc' = [wpc EXCEPT ![w] = "put"]
    /\ UNCHANGED <<now, minimal_build, concurrent_requests, duration, mpc,
                   start_time, started, joined, local_results, requests_sent,
                   result_queue, all_results, stress_results>>
    /\ UNCHANGED outsideStress

\* what the worker does with the response of one request: the entry it
\* appends and where it goes next (a break, or the 100 ms sleep and the next
\* evaluation of the loop condition)
\* request_time = time.time() - request_start, where request_start, the
\* request and this reading are one step of the worker: the clock of the
\* model does not move within it
RequestTime == 0

WorkerEntry(resp, request_time) ==
    IF resp = NoResponse THEN FailedResult
    ELSE IF resp = HTTP_NOT_FOUND THEN DisabledResult
    ELSE TimedResult(resp, request_time)

\* mutant: the 404 branch lacks its break
WorkerAfterNoBreakOn404(resp) ==
    IF resp = NoResponse THEN "put" ELSE "loop"

WorkerAfter(resp) ==
    IF resp = NoResponse THEN "put"          \* break
    ELSE IF resp = HTTP_NOT_FOUND THEN "put" \* break
    ELSE "loop"                              \* time.sleep(0.1), next iteration

\* mutant: the worker stores whether this response was a 404
FlagAfterOverwrite(resp, flag) == resp = HTTP_NOT_FOUND

\* self.minimal_build = True, in the 404 branch only
FlagAfter(resp, flag) == IF resp = HTTP_NOT_FOUND THEN TRUE ELSE flag

WorkerRequest(w) ==
    /\ wpc[w] = "request"
    /\ \E resp \in Responses :
         /\ local_results' = [local_results EXCEPT
                                ![w] = Append(@, WorkerEntry(resp, RequestTime))]
         /\ minimal_build' = FlagAfter(resp, minimal_build)
         /\ wpc' = [wpc EXCEPT ![w] = WorkerAfter(resp)]
    /\ requests_sent' = [requests_sent EXCEPT ![w] = @ + 1]
    /\ UNCHANGED <<now, concurrent_requests, duration, mpc, start_time, started,
                   joined, result_queue, all_results, stress_results>>
    /\ UNCHANGED outsideStress

\* result_queue.put(local_results); the thread ends
WorkerPut(w) ==
    /\ wpc[w] = "put"
    /\ result_queue' = Append(result_queue, local_results[w])
    /\ wpc' = [wpc EXCEPT ![w] = "done"]
    /\ UNCHANGED <<now, minimal_build, concurrent_requests, duration, mpc,
                   start_time, started, joined, local_results, requests_sent,
                   all_results, stress_results>>
    /\ UNCHANGED outsideStress

\* ------------------------------------------------------ stress_test (caller)
\* result_queue = queue.Queue(); start_time = time.time()
StressStart ==
    /\ mpc = "start"
    /\ result_queue' = <<>>
    /\ start_time' = now
    /\ mpc' = "spawn"
    /\ UNCHANGED <<now, minimal_build, concurrent_requests, duration, started,
                   joined, wpc, local_results, requests_sent, all_results,
                   stress_results>>
    /\ UNCHANGED outsideStress

\* for _ in range(concurrent_requests): thread.start()
StressSpawn ==
    /\ mpc = "spawn"
    /\ IF started < concurrent_requests
         THEN /\ started' = started + 1
              /\ wpc' = [wpc EXCEPT ![started + 1] = "loop"]
              /\ mpc' = mpc
         ELSE /\ mpc' = "join"
              /\ UNCHANGED <<started, wpc>>
    /\ UNCHANGED <<now, minimal_build, concurrent_requests, duration, start_time,
                   joined, local_results, requests_sent, result_queue,
                   all_results, stress_results>>
    /\ UNCHANGED outsideStress

\* mutant: the caller does not wait for the thread
JoinReturnsAtOnce(w) == wpc[w] # "idle"

\* thread.join() returns once that thread has ended
JoinReturns(w) == wpc[w] = "done"

\* for thread in threads: thread.join()
StressJoin ==
    /\ mpc = "join"
    /\ IF joined < started
         THEN /\ JoinReturns(joined + 1)
              /\ joined' = joined + 1
              /\ mpc' = mpc
         ELSE /\ mpc' = "drain"
              /\ UNCHANGED joined
    /\ UNCHANGED <<now, minimal_build, concurrent_requests, duration, start_time,
                   started, wpc, local_results, requests_sent, result_queue,
                   all_results, stress_results>>
    /\ UNCHANGED outsideStress

\* while not result_queue.empty(): all_results.extend(result_queue.get())
StressDrain ==
    /\ mpc = "drain"
    /\ IF result_queue # <<>>
         THEN /\ all_results' = all_results \o Head(result_queue)
              /\ result_queue' = Tail(result_queue)
              /\ mpc' = mpc
         ELSE /\ mpc' = "analyze"
              /\ UNCHANGED <<all_results, result_queue>>
    /\ UNCHANGED <<now, minimal_build, concurrent_requests, duration, start_time,
                   started, joined, wpc, local_results, requests_sent,
                   stress_results>>
    /\ UNCHANGED outsideStress

IsSuccess(r) == r.success
IsApiDisabled(r) == r.error = "api disabled"

\* len([r for r in all_results if r['success']])
NumSuccess(rs) == Cardinality({i \in DOMAIN rs : IsSuccess(rs[i])})
\* how many entries carry error 'api disabled'
NumApiDisabled(rs) == Cardinality({i \in DOMAIN rs : IsApiDisabled(rs[i])})

HasResponseTime(r) == "response_time" \in DOMAIN r

\* mutant: every entry that carries a response time is taken
TimedRequests(rs) == SelectSeq(rs, HasResponseTime)

\* successful_requests = [r for r in all_results if r.get('success', False)]
SuccessfulRequests(rs) == SelectSeq(rs, IsSuccess)

\* response_times = [r['response_time'] for r in successful_requests]
ResponseTimesOf(rs) == [i \in 1..Len(rs) |-> rs[i].response_time]

\* statistics.mean, as the pair <<sum, count>>
Mean(ts) == <<SumOver(ts, DOMAIN ts), Len(ts)>>

Minimum(ts) == CHOOSE m \in {ts[i] : i \in DOMAIN ts} :
                   \A i \in DOMAIN ts : m <= ts[i]
Maximum(ts) == CHOOSE m \in {ts[i] : i \in DOMAIN ts} :
                   \A i \in DOMAIN ts : m >= ts[i]

\* the k-th smallest of ts
Kth(ts, k) ==
    CHOOSE v \in {ts[i] : i \in DOMAIN ts} :
        /\ Cardinality({i \in DOMAIN ts : ts[i] < v}) < k
        /\ k <= Cardinality({i \in DOMAIN ts : ts[i] <= v})

\* statistics.median: the middle value, or the mean of the two middle
\* values, as the pair <<sum of the middle values, their number>>
Median(ts) ==
    LET n == Len(ts) IN
    IF n % 2 = 1 THEN <<Kth(ts, (n + 1) \div 2), 1>>
    ELSE <<Kth(ts, n \div 2) + Kth(ts, n \div 2 + 1), 2>>

\* the dict built from all_results; d is the duration argument
Analyze(rs, d) ==
    LET nsucc == NumSuccess(rs)
        nfail == Len(rs) - nsucc
        response_times_ == ResponseTimesOf(SuccessfulRequests(rs))
    IN IF nsucc > 0
         THEN [total_requests |-> Len(rs),
               successful_requests |-> nsucc,
               failed_requests |-> nfail,
               success_rate |-> <<nsucc * 100, Len(rs)>>,
               avg_response_time |-> Mean(response_times_),
               min_response_time |-> Minimum(response_times_),
               max_response_time |-> Maximum(response_times_),
               median_response_time |-> Median(response_times_),
               requests_per_second |-> <<nsucc, d>>,
               error |-> "none"]
         ELSE [total_requests |-> Len(rs),
               successful_requests |-> 0,
               failed_requests |-> nfail,
               success_rate |-> <<0, 1>>,
               error |-> IF NumApiDisabled(rs) > 0
                           THEN "api disabled" ELSE "all failed"]

StressAnalyze ==
    /\ mpc = "analyze"
    /\ stress_results' = Analyze(all_results, duration)
    /\ mpc' = "done"
    /\ UNCHANGED <<now, minimal_build, concurrent_requests, duration, start_time,
                   started, joined, wpc, local_results, requests_sent,
                   result_queue, all_results>>
    /\ UNCHANGED outsideStress

NoStressResults == [total_requests |-> -1, successful_requests |-> -1,
                    failed_requests |-> -1, success_rate |-> <<0, 1>>,
                    error |-> "not run"]

StressFresh ==
    /\ start_time = 0
    /\ started = 0
    /\ joined = 0
    /\ wpc = [w \in Workers |-> "idle"]
    /\ local_results = [w \in Workers |-> <<>>]
    /\ requests_sent = [w \in Workers |-> 0]
    /\ result_queue = <<>>
    /\ all_results = <<>>
    /\ stress_results = NoStressResults


\* ------------------------------------------------------------------------
\* DaiSpanMonitor (scripts/long_term_test.py)
\* ------------------------------------------------------------------------
\* self.test_pages: "/", "/wifi", "/homekit", "/simulation-toggle", "/ota"
NumPages == 5
HomePage == 1

\* what one requests.get of test_page_response can end in
PageOutcomes == {"200", "other_status", "timeout", "connection_error",
                 "other_exception"}
TransportFailures == {"timeout", "connection_error", "other_exception"}

\* mutant: any answer of the device counts as a success
test_page_response_any_status(outcome) ==
    [success |-> (outcome \in {"200", "other_status"}),
     error |-> IF outcome \in TransportFailures THEN outcome ELSE "absent"]

\* the dict test_page_response returns: every exception is caught and turned
\* into a result that carries an "error" key
test_page_response(outcome) ==
    [success |-> (outcome = "200"),
     error |-> IF outcome \in TransportFailures THEN outcome ELSE "absent"]

\* mutant: a failed page no longer clears overall_success
OverallSuccessIgnoringFailure(current, result) == current

\* cycle_results["overall_success"] after one page's result
OverallSuccess(current, result) == current /\ result.success

\* mutant: the sleep is not clamped to the time remaining
SleepTimeUnclamped(i, remaining) == i

\* sleep_time = min(interval, remaining)
SleepTime(i, remaining) == IF i < remaining THEN i ELSE remaining

\* mutant: the handlers return without the finally block's report
AfterHandlerNoFinally == "returned"

\* where control goes after either except clause: the finally block
AfterHandler == "finally"

NoReport == [end_time |-> -1, success_rate |-> <<0, 1>>, has_avg |-> FALSE]

\* mutant: the success rate is added to the one already in self.results
GenerateReportAccumulating ==
    [end_time |-> now,
     success_rate |-> IF total_checks > 0
                        THEN <<successful_checks * 100 + report.success_rate[1],
                               total_checks>>
                        ELSE <<0, 1>>,
     has_avg |-> response_times > 0]

\* what generate_report writes into self.results
generate_report ==
    [end_time |-> now,
     success_rate |-> IF total_checks > 0
                        THEN <<successful_checks * 100, total_checks>>
                        ELSE <<0, 1>>,
     has_avg |-> response_times > 0]

NoCycle == [cycle_number |-> 0, overall_success |-> TRUE,
            transport_failed |-> FALSE, all_200 |-> TRUE]

\* positions inside the try block of run_continuous_test
InCycle == {"page", "meminfo", "count", "append"}
InTry == {"while", "checkpoint", "remaining", "sleep"} \cup InCycle

\* total_duration, interval, end_time = time.time() + total_duration
MonStart ==
    /\ spc = "start"
    /\ end_time' = now + total_duration
    /\ spc' = "while"
    /\ UNCHANGED <<now, total_duration, interval, sleep_time, page, cycle_results,
                   tests, total_checks, successful_checks, failed_checks, errors,
                   response_times, memory_readings, report, reports, returned,
                   cycles_started, tick_start, collected, final_reports, busy, exit_via>>
    /\ UNCHANGED outsideMonitor

\* the cap on the cycles of one call: never reached with an interval of one
\* unit or more, it only stops a run whose cycles and sleeps take no time
CycleCap ==
    (IF total_duration > MaxTotalDuration THEN total_duration
     ELSE MaxTotalDuration) + 2

\* while time.time() < end_time: the next cycle begins, or the loop ends
MonWhile ==
    /\ spc = "while"
    /\ IF now < end_time
         THEN /\ cycles_started < CycleCap
              /\ spc' = "page"
              /\ page' = 1
              /\ cycle_results' = [cycle_number |-> total_checks + 1,
                                   overall_success |-> TRUE,
                                   transport_failed |-> FALSE,
                                   all_200 |-> TRUE]
              /\ cycles_started' = cycles_started + 1
              /\ tick_start' = now
              /\ collected' = 0
              /\ UNCHANGED exit_via
         ELSE /\ spc' = "finally"
              /\ exit_via' = "deadline"
              /\ UNCHANGED <<page, cycle_results, cycles_started, tick_start,
                             collected>>
    /\ UNCHANGED <<now, total_duration, interval, end_time, sleep_time, tests,
                   total_checks, successful_checks, failed_checks, errors,
                   response_times, memory_readings, report, reports, returned,
                   final_reports, busy>>
    /\ UNCHANGED outsideMonitor

NextPage(p) == IF p < NumPages THEN "page" ELSE "count"

\* one pass of the page loop of run_single_test_cycle: test_page_response and
\* the bookkeeping of its result
MonPage ==
    /\ spc = "page"
    /\ \E outcome \in PageOutcomes, elapsed \in 0..MaxElapsed :
         LET result == test_page_response(outcome) IN
         /\ collected + elapsed <= MaxElapsed
         /\ ~result.success => errors < MaxFailures
         /\ now' = now + elapsed
         /\ collected' = collected + elapsed
         /\ busy' = (busy \/ elapsed > 0)
         /\ IF result.success
              THEN /\ response_times' = response_times + 1
                   /\ spc' = IF page = HomePage THEN "meminfo" ELSE NextPage(page)
                   /\ page' = IF page = HomePage THEN page ELSE page + 1
                   /\ cycle_results' =
                        [cycle_results EXCEPT
                           !.all_200 = @ /\ outcome = "200"]
                   /\ UNCHANGED errors
              ELSE /\ errors' = errors + 1
                   /\ cycle_results' =
                        [cycle_results EXCEPT
                           !.overall_success = OverallSuccess(@, result),
                           !.transport_failed = @ \/ result.error # "absent",
                           !.all_200 = @ /\ outcome = "200"]
                   /\ spc' = NextPage(page)
                   /\ page' = page + 1
                   /\ UNCHANGED response_times
    /\ UNCHANGED <<total_duration, interval, end_time, sleep_time, tests,
                   total_checks, successful_checks, failed_checks,
                   memory_readings, report, reports, returned, cycles_started,
                   tick_start, final_reports, exit_via>>
    /\ UNCHANGED outsideMonitor

\* what extract_memory_info returns for a page body: a readings dict, or None
\* (nothing found, or a parse error caught inside)
MemoryBodies == {"readings", "nothing", "parse_error"}
extract_memory_info(body) == IF body = "readings" THEN "info" ELSE "none"

\* the second request for the home page, inside try: ... except: pass.  The
\* bare except swallows whatever is raised there, a KeyboardInterrupt included.
MonMemInfo ==
    /\ spc = "meminfo"
    /\ \E body \in MemoryBodies \cup {"raised"} :
         memory_readings' =
            IF body # "raised" /\ extract_memory_info(body) = "info"
              THEN memory_readings + 1 ELSE memory_readings
    /\ spc' = NextPage(page)
    /\ page' = page + 1
    /\ UNCHANGED <<now, total_duration, interval, end_time, sleep_time,
                   cycle_results, tests, total_checks, successful_checks,
                   failed_checks, errors, response_times, report, reports,
                   returned, cycles_started, tick_start, collected, final_reports, busy, exit_via>>
    /\ UNCHANGED outsideMonitor

\* total_checks += 1 and the successful/failed counter
MonCount ==
    /\ spc = "count"
    /\ total_checks' = total_checks + 1
    /\ IF cycle_results.overall_success
         THEN /\ successful_checks' = successful_checks + 1
              /\ UNCHANGED failed_checks
         ELSE /\ failed_checks' = failed_checks + 1
              /\ UNCHANGED successful_checks
    /\ spc' = "append"
    /\ UNCHANGED <<now, total_duration, interval, end_time, sleep_time, page,
                   cycle_results, tests, errors, response_times, memory_readings,
                   report, reports, returned, cycles_started, tick_start,
                   collected, final_reports, busy, exit_via>>
    /\ UNCHANGED outsideMonitor

\* self.results["tests"].append(cycle_results); the cycle is complete
MonAppend ==
    /\ spc = "append"
    /\ tests' = Append(tests, cycle_results)
    /\ spc' = "checkpoint"
    /\ UNCHANGED <<now, total_duration, interval, end_time, sleep_time, page,
                   cycle_results, total_checks, successful_checks, failed_checks,
                   errors, response_times, memory_readings, report, reports,
                   returned, cycles_started, tick_start, collected, final_reports,
                   busy, exit_via>>
    /\ UNCHANGED outsideMonitor

CheckpointEvery == 10

\* mutant: the intermediate report is due one cycle late
IsCheckpointLate(n) == n % CheckpointEvery = 1

\* self.results['summary']['total_checks'] % 10 == 0
IsCheckpoint(n) == n % CheckpointEvery = 0

\* if total_checks % 10 == 0: self.generate_report()
MonCheckpoint ==
    /\ spc = "checkpoint"
    /\ IF IsCheckpoint(total_checks)
         THEN /\ report' = generate_report
              /\ reports' = reports + 1
         ELSE UNCHANGED <<report, reports>>
    /\ spc' = "remaining"
    /\ UNCHANGED <<now, total_duration, interval, end_time, sleep_time, page,
                   cycle_results, tests, total_checks, successful_checks,
                   failed_checks, errors, response_times, memory_readings,
                   returned, cycles_started, tick_start, collected, final_reports, busy, exit_via>>
    /\ UNCHANGED outsideMonitor

\* remaining = end_time - time.time(); break, or compute the sleep
MonRemaining ==
    /\ spc = "remaining"
    /\ LET remaining == end_time - now IN
         IF remaining <= 0
           THEN /\ spc' = "finally"
                /\ exit_via' = "deadline"
                /\ UNCHANGED sleep_time
           ELSE /\ sleep_time' = SleepTime(interval, remaining)
                /\ spc' = "sleep"
                /\ UNCHANGED exit_via
    /\ UNCHANGED <<now, total_duration, interval, end_time, page, cycle_results,
                   tests, total_checks, successful_checks, failed_checks, errors,
                   response_times, memory_readings, report, reports, returned,
                   cycles_started, tick_start, collected, final_reports, busy>>
    /\ UNCHANGED outsideMonitor

\* time.sleep(sleep_time): a negative argument raises ValueError
MonSleep ==
    /\ spc = "sleep"
    /\ IF sleep_time < 0
         THEN /\ spc' = "except_exc"
              /\ exit_via' = "error"
              /\ UNCHANGED now
         ELSE /\ now' = now + sleep_time
              /\ spc' = "while"
              /\ UNCHANGED exit_via
    /\ UNCHANGED <<total_duration, interval, end_time, sleep_time, page,
                   cycle_results, tests, total_checks, successful_checks,
                   failed_checks, errors, response_times, memory_readings, report,
                   reports, returned, cycles_started, tick_start, collected, final_reports, busy>>
    /\ UNCHANGED outsideMonitor

\* a KeyboardInterrupt is raised in the try block, outside the bare except
MonInterrupt ==
    /\ spc \in InTry \ {"meminfo"}
    /\ spc' = "except_kbd"
    /\ exit_via' = "interrupt"
    /\ UNCHANGED <<now, total_duration, interval, end_time, sleep_time, page,
                   cycle_results, tests, total_checks, successful_checks,
                   failed_checks, errors, response_times, memory_readings, report,
                   reports, returned, cycles_started, tick_start, collected, final_reports, busy>>
    /\ UNCHANGED outsideMonitor

\* an exception is raised in the try block (log file or report I/O)
MonError ==
    /\ spc \in InTry \ {"meminfo"}
    /\ spc' = "except_exc"
    /\ exit_via' = "error"
    /\ UNCHANGED <<now, total_duration, interval, end_time, sleep_time, page,
                   cycle_results, tests, total_checks, successful_checks,
                   failed_checks, errors, response_times, memory_readings, report,
                   reports, returned, cycles_started, tick_start, collected, final_reports, busy>>
    /\ UNCHANGED outsideMonitor

\* except KeyboardInterrupt / except Exception: log, then the finally block
MonExcept ==
    /\ spc \in {"except_kbd", "except_exc"}
    /\ spc' = AfterHandler
    /\ UNCHANGED <<now, total_duration, interval, end_time, sleep_time, page,
                   cycle_results, tests, total_checks, successful_checks,
                   failed_checks, errors, response_times, memory_readings, report,
                   reports, returned, cycles_started, tick_start, collected, final_reports, busy,
                   exit_via>>
    /\ UNCHANGED outsideMonitor

\* finally: report_file = self.generate_report(); return report_file
MonFinally ==
    /\ spc = "finally"
    /\ report' = generate_report
    /\ reports' = reports + 1
    /\ final_reports' = final_reports + 1
    /\ returned' = "report_file"
    /\ spc' = "returned"
    /\ UNCHANGED <<now, total_duration, interval, end_time, sleep_time, page,
                   cycle_results, tests, total_checks, successful_checks,
                   failed_checks, errors, response_times, memory_readings,
                   cycles_started, tick_start, collected, busy, exit_via>>
    /\ UNCHANGED outsideMonitor

MonitorFresh ==
    /\ spc = "start"
    /\ end_time = 0
    /\ sleep_time = 0
    /\ page = 0
    /\ cycle_results = NoCycle
    /\ tests = <<>>
    /\ total_checks = 0
    /\ successful_checks = 0
    /\ failed_checks = 0
    /\ errors = 0
    /\ response_times = 0
    /\ memory_readings = 0
    /\ report = NoReport
    /\ reports = 0
    /\ returned = "nothing"
    /\ cycles_started = 0
    /\ tick_start = 0
    /\ collected = 0
    /\ final_reports = 0
    /\ busy = FALSE
    /\ exit_via = "none"

\* the tester, not in a stress test
StressIdle ==
    /\ minimal_build = FALSE
    /\ concurrent_requests = 0
    /\ duration = 0
    /\ mpc = "idle"
    /\ StressFresh

\* the monitor, not in a run
MonitorIdle ==
    /\ total_duration = 0
    /\ interval = 0
    /\ MonitorFresh

\* ------------------------------------------------------------------------
\* MemoryFixTester._calculate_trend, _calculate_stability
\* (scripts/test_memory_fixes.py; PairingFixTester._calculate_stability in
\* scripts/test_pairing_fix.py is the same text).  Heap sizes are counted in
\* units of 100 bytes, and every quotient is kept as a pair
\* <<numerator, denominator>> with a positive denominator.
\* ------------------------------------------------------------------------
\* abs(diff) < 1000, in units of 100 bytes
StableThreshold == 10

\* the heap sizes explored
HeapValues == {0, 995, 1000, 1010, 1150, 1400}

\* the series of at most n readings
Series(n) == UNION {[1..k -> HeapValues] : k \in 0..n}

\* sum(values)
RECURSIVE Sum(_)
Sum(s) == IF s = <<>> THEN 0 ELSE Head(s) + Sum(Tail(s))

\* mutant: the first half takes the middle value of an odd series
SplitAtCeil(s) == (Len(s) + 1) \div 2

\* len(values)//2
SplitAt(s) == Len(s) \div 2

\* second_avg - first_avg, for averages a = sum/len of the two halves
Diff(second, first) ==
    <<Sum(second) * Len(first) - Sum(first) * Len(second),
      Len(second) * Len(first)>>

Abs(x) == IF x < 0 THEN -x ELSE x

_calculate_trend(s) ==
    IF Len(s) < 2 THEN "insufficient_data"
    ELSE LET first_half  == SubSeq(s, 1, SplitAt(s))
             second_half == SubSeq(s, SplitAt(s) + 1, Len(s))
             diff == Diff(second_half, first_half)
         IN IF diff[2] = 0 THEN "ZeroDivisionError"
            ELSE IF Abs(diff[1]) < StableThreshold * diff[2] THEN "stable"
            ELSE IF diff[1] > 0 THEN "improving"
            ELSE "declining"

\* sum((x - avg) ** 2 for x in values) with avg = sum/len, times len ** 2
RECURSIVE SquaredDeviations(_, _, _)
SquaredDeviations(s, n, total) ==
    IF s = <<>> THEN 0
    ELSE (n * Head(s) - total) * (n * Head(s) - total)
         + SquaredDeviations(Tail(s), n, total)

\* mutant: the sample variance, divided by len(values) - 1
SampleVariance(s) ==
    <<SquaredDeviations(s, Len(s), Sum(s)), Len(s) * Len(s) * (Len(s) - 1)>>

\* variance = sum((x - avg) ** 2 for x in values) / len(values)
Variance(s) ==
    <<SquaredDeviations(s, Len(s), Sum(s)), Len(s) * Len(s) * Len(s)>>

\* stability_ratio < 1/k, for stability_ratio = variance ** 0.5 / avg with
\* avg = sum/len not zero: a negative avg makes the ratio negative; for a
\* positive avg the comparison is that of the squares,
\*   k*k * variance < avg*avg,
\* written with a quotient so that no product leaves the 32-bit integers
RatioBelow(s, k) ==
    LET var == Variance(s)
        rhs == Sum(s) * Sum(s) * (var[2] \div (Len(s) * Len(s)))
    IN \/ Sum(s) < 0
       \/ var[1] <= (rhs - 1) \div (k * k)

_calculate_stability(s) ==
    IF Len(s) < 3 THEN "insufficient_data"
    ELSE IF Sum(s) = 0 THEN "ZeroDivisionError"   \* std_dev / avg
    ELSE IF RatioBelow(s, 20) THEN "excellent"    \* < 0.05
    ELSE IF RatioBelow(s, 10) THEN "good"         \* < 0.1
    ELSE IF RatioBelow(s, 5) THEN "moderate"      \* < 0.2
    ELSE "poor"

\* "memory_trend": self._calculate_trend(free_heaps)
CalcTrend ==
    /\ apc = "trend"
    /\ memory_trend' = _calculate_trend(values)
    /\ apc' = IF memory_trend' = "ZeroDivisionError" THEN "raised" ELSE "stability"
    /\ UNCHANGED <<values, memory_stability>>
    /\ UNCHANGED outsideStats

\* "memory_stability": self._calculate_stability(free_heaps)
CalcStability ==
    /\ apc = "stability"
    /\ memory_stability' = _calculate_stability(values)
    /\ apc' = IF memory_stability' = "ZeroDivisionError" THEN "raised" ELSE "done"
    /\ UNCHANGED <<values, memory_trend>>
    /\ UNCHANGED outsideStats

\* no analysis under way
StatsIdle ==
    /\ values = <<>>
    /\ apc = "idle"
    /\ memory_trend = "unset"
    /\ memory_stability = "unset"

\* ------------------------------------------------------------------------
\* DaiSpanPerformanceTester.comprehensive_test (scripts/performance_test.py)
\* ------------------------------------------------------------------------
\* the body of a 200 answer: JSON with the expected fields, a JSON object that
\* lacks them, or text that is not JSON
Bodies == {"valid", "partial", "malformed"}

\* what _get can hand back, with the body of a 200 answer
Replies ==
    {[status |-> st, body |-> "none"] :
        st \in {NoResponse, HTTP_NO_CONTENT, HTTP_NOT_FOUND, HTTP_ERROR}}
    \cup {[status |-> HTTP_OK, body |-> b] : b \in Bodies}

\* bool(response): None is false, and requests.Response is true when its
\* status is below 400
Truthy(r) == r.status # NoResponse /\ r.status < 400

\* ghost bookkeeping of one request to endpoint e answered by r
Seen(e, r, seen) == IF r.status = HTTP_NOT_FOUND THEN seen \cup {e} ELSE seen
Again(e, seen, again) == IF e \in seen THEN again \cup {e} ELSE again

NoResults == [connection |-> "unset", minimal_build |-> FALSE,
              memory_stats |-> "unset", performance_test |-> "unset",
              load_test |-> "unset", benchmark |-> "unset",
              monitoring |-> "unset", stress_test |-> "unset"]

\* results = {'timestamp': ..., 'device_url': ..., 'minimal_build': self.minimal_build}
CompStart ==
    /\ cpc = "start"
    /\ results' = [NoResults EXCEPT !.minimal_build = minimal_build]
    /\ cpc' = "connection"
    /\ UNCHANGED <<now, minimal_build, stress_results, monitoring_data, mon_start,
                   mon_requests, seen404, after404, raised_in, replies>>
    /\ UNCHANGED outsideComp

\* test_connection: /api/health, then the dashboard probe; returns the new
\* minimal_build and whether the device is connected
ConnectionProbe(health, dash, mb) ==
    IF Truthy(health) /\ health.status = HTTP_OK
      THEN [connected |-> TRUE,
            minimal_build |-> (~Truthy(dash) \/ dash.status = HTTP_NOT_FOUND)]
      ELSE IF Truthy(dash) /\ dash.status = HTTP_OK
             THEN [connected |-> TRUE, minimal_build |-> FALSE]
             ELSE [connected |-> FALSE, minimal_build |-> mb]

\* step 1 of comprehensive_test
CompConnection ==
    /\ cpc = "connection"
    /\ \E health, dash \in Replies :
         LET probe == ConnectionProbe(health, dash, minimal_build)
             seen1 == Seen("/api/health", health, seen404)
         IN /\ minimal_build' = probe.minimal_build
            /\ replies' = <<health, dash>>
            /\ seen404' = Seen("/api/monitor/dashboard", dash, seen1)
            /\ IF probe.connected
                 THEN /\ results' = [results EXCEPT !.connection = "true"]
                      /\ cpc' = "memory"
                 ELSE /\ results' = [results EXCEPT !.connection = "false"]
                      /\ cpc' = "returned"
    /\ UNCHANGED <<now, stress_results, monitoring_data, mon_start, mon_requests,
                   after404, raised_in>>
    /\ UNCHANGED outsideComp

\* mutant: a 404 of the primary endpoint is reported as no data
GetMemoryStatsNoFallback(primary, fallback) ==
    IF primary.status = HTTP_OK
      THEN IF primary.body = "malformed" THEN "raised" ELSE "detailed"
      ELSE "none"

\* get_memory_stats: what it returns for the answers of the primary and (after
\* a 404) the fallback endpoint; "raised" when response.json() or data.get
\* throws
get_memory_stats(primary, fallback) ==
    IF primary.status = NoResponse THEN "none"
    ELSE IF primary.status = HTTP_NOT_FOUND
      THEN IF Truthy(fallback) /\ fallback.status = HTTP_OK
             THEN IF fallback.body = "malformed" THEN "raised" ELSE "stats"
             ELSE "none"
    ELSE IF primary.status = HTTP_OK
      THEN IF primary.body = "malformed" THEN "raised" ELSE "detailed"
    ELSE "none"

\* mutant: a failed primary request is retried on the fallback endpoint too
FallsBackOnFailure(primary) ==
    primary.status \in {HTTP_NOT_FOUND, NoResponse}

\* get_memory_stats requests /api/memory/stats: if response.status_code == 404
\* (after the return on response is None)
FallsBack(primary) == primary.status = HTTP_NOT_FOUND

\* step 2 of comprehensive_test
CompMemory ==
    /\ cpc = "memory"
    /\ \E primary, fallback \in Replies :
         LET stats == get_memory_stats(primary, fallback)
             seen1 == Seen("/api/memory/detailed", primary, seen404)
             fell  == FallsBack(primary)
         IN /\ ~fell => fallback = primary
            /\ replies' = IF fell THEN <<primary, fallback>> ELSE <<primary>>
            /\ seen404' = IF fell THEN Seen("/api/memory/stats", fallback, seen1)
                          ELSE seen1
            /\ after404' = IF fell THEN Again("/api/memory/stats", seen1, after404)
                           ELSE after404
            /\ IF stats = "raised"
                 THEN /\ raised_in' = "get_memory_stats"
                      /\ cpc' = "raised"
                      /\ UNCHANGED results
                 ELSE /\ results' = [results EXCEPT !.memory_stats = stats]
                      /\ cpc' = "performance"
                      /\ UNCHANGED raised_in
    /\ UNCHANGED <<now, minimal_build, stress_results, monitoring_data, mon_start,
                   mon_requests>>
    /\ UNCHANGED outsideComp

\* run_performance_test, run_load_test, run_benchmark_test: the same shape
run_optional_test(r) ==
    IF r.status = NoResponse THEN "none"
    ELSE IF r.status = HTTP_NOT_FOUND THEN "skipped"
    ELSE IF r.status = HTTP_OK
      THEN IF r.body = "malformed" THEN "raised" ELSE r.body
    ELSE "none"

\* steps 3, 4 and 5 of comprehensive_test: the call, then the section of the
\* results; printing a field a "partial" answer lacks raises KeyError in
\* comprehensive_test itself
OptionalStep(here, endpoint, fn, key, next) ==
    /\ cpc = here
    /\ \E r \in Replies :
         LET got == run_optional_test(r) IN
         /\ replies' = <<r>>
         /\ seen404' = Seen(endpoint, r, seen404)
         /\ after404' = Again(endpoint, seen404, after404)
         /\ IF got = "raised"
              THEN /\ raised_in' = fn
                   /\ cpc' = "raised"
                   /\ UNCHANGED results
              ELSE IF got = "partial"
                THEN /\ raised_in' = "comprehensive_test"
                     /\ cpc' = "raised"
                     /\ UNCHANGED results
              ELSE /\ results' = IF got = "none" THEN results
                                 ELSE [results EXCEPT ![key] = got]
                   /\ cpc' = next
                   /\ UNCHANGED raised_in
    /\ UNCHANGED <<now, minimal_build, stress_results, monitoring_data, mon_start,
                   mon_requests>>
    /\ UNCHANGED outsideComp

CompPerformance ==
    OptionalStep("performance", "/api/performance/test", "run_performance_test",
                 "performance_test", "load")

CompLoad ==
    OptionalStep("load", "/api/performance/load", "run_load_test", "load_test",
                 "benchmark")

CompBenchmark ==
    OptionalStep("benchmark", "/api/performance/benchmark", "run_benchmark_test",
                 "benchmark", "monitor")

\* monitor_dashboard: results = []; start_time = time.time()
CompMonitorBegin ==
    /\ cpc = "monitor"
    /\ monitoring_data' = 0
    /\ mon_start' = now
    /\ cpc' = "monitor_loop"
    /\ UNCHANGED <<now, minimal_build, stress_results, results, mon_requests,
                   seen404, after404, raised_in, replies>>
    /\ UNCHANGED outsideComp

\* the section comprehensive_test writes for what monitor_dashboard returned
MonitoringSection(samples, mb) ==
    IF samples > 0 THEN "samples"
    ELSE IF mb THEN "skipped"
    ELSE "unset"

\* monitor_dashboard returns; step 6 of comprehensive_test writes its section
MonitorReturn ==
    /\ results' = [results EXCEPT
                     !.monitoring = MonitoringSection(monitoring_data, minimal_build)]
    /\ cpc' = "stress"

\* while time.time() - start_time < duration
CompMonitorLoop ==
    /\ cpc = "monitor_loop"
    /\ IF now - mon_start < MonitorDuration
         THEN /\ mon_requests < MaxSamples
              /\ cpc' = "monitor_request"
              /\ UNCHANGED results
         ELSE MonitorReturn
    /\ UNCHANGED <<now, minimal_build, stress_results, monitoring_data, mon_start,
                   mon_requests, seen404, after404, raised_in, replies>>
    /\ UNCHANGED outsideComp

\* what one pass of the loop of monitor_dashboard does with the answer:
\* "break", "append" (a sample, then sleep), "sleep" (status printed), or
\* "raised" (response.json() or data['system']['freeHeap'] throws)
MonitorSample(r) ==
    IF r.status = NoResponse THEN "break"
    ELSE IF r.status = HTTP_NOT_FOUND THEN "break"
    ELSE IF r.status = HTTP_OK
      THEN IF r.body = "valid" THEN "append" ELSE "raised"
    ELSE "sleep"

CompMonitorRequest ==
    /\ cpc = "monitor_request"
    /\ mon_requests' = mon_requests + 1
    /\ \E r \in Replies :
         LET did == MonitorSample(r) IN
         /\ replies' = <<r>>
         /\ seen404' = Seen("/api/monitor/dashboard", r, seen404)
         /\ after404' = Again("/api/monitor/dashboard", seen404, after404)
         /\ monitoring_data' = IF did = "append" THEN monitoring_data + 1
                               ELSE monitoring_data
         /\ IF did = "raised"
              THEN /\ raised_in' = "monitor_dashboard"
                   /\ cpc' = "raised"
                   /\ UNCHANGED results
              ELSE IF did = "break"
                THEN /\ MonitorReturn
                     /\ UNCHANGED raised_in
              ELSE /\ cpc' = "monitor_loop"
                   /\ UNCHANGED <<results, raised_in>>
    /\ UNCHANGED <<now, minimal_build, stress_results, mon_start>>
    /\ UNCHANGED outsideComp

\* the lists one worker of stress_test can have recorded after at most n
\* requests whose request times are in T: it stops on its first None or 404,
\* or at the deadline
RECURSIVE TimedWorkerRuns(_, _)
TimedWorkerRuns(n, T) ==
    IF n = 0 THEN {<<>>}
    ELSE {<<>>} \cup
         UNION {{<<WorkerEntry(r, t)>> \o rest :
                   rest \in (IF WorkerAfter(r) = "put" THEN {<<>>}
                             ELSE TimedWorkerRuns(n - 1, T))} :
                  r \in Responses, t \in T}

WorkerRuns(n) == TimedWorkerRuns(n, {RequestTime})

\* all_results after the lists of workers 1..n were taken from the queue
RECURSIVE Drained(_, _)
Drained(runs, n) == IF n = 0 THEN <<>> ELSE Drained(runs, n - 1) \o runs[n]

\* mutant: the 'api disabled' branch is missing
StressSectionNoSkip(sr) ==
    IF sr.success_rate[1] > 0 THEN "statistics" ELSE "failed"

\* mutant: without a success the section is skipped whatever the error
StressSectionSkipsAllFailures(sr) ==
    IF sr.success_rate[1] > 0 THEN "statistics" ELSE "skipped"

\* the section comprehensive_test writes for what stress_test returned
StressSection(sr) ==
    IF sr.success_rate[1] > 0 THEN "statistics"
    ELSE IF sr.error = "api disabled" THEN "skipped"
    ELSE "failed"

\* step 7 of comprehensive_test: stress_test(concurrent_requests=3, duration=20)
\* taken as one step, by what its three workers recorded; then the section
CompStress ==
    /\ cpc = "stress"
    /\ \E runs \in [1..StressWorkers -> WorkerRuns(MaxWorkerRequests)] :
         LET all == Drained(runs, StressWorkers)
             sr  == Analyze(all, StressDuration)
         IN /\ stress_results' = sr
            /\ minimal_build' = (minimal_build \/ NumApiDisabled(all) > 0)
            /\ after404' = IF all # <<>>
                             THEN Again("/api/memory/stats", seen404, after404)
                             ELSE after404
            /\ seen404' = IF NumApiDisabled(all) > 0
                            THEN seen404 \cup {"/api/memory/stats"} ELSE seen404
            /\ results' = [results EXCEPT !.stress_test = StressSection(sr)]
    /\ cpc' = "returned"
    /\ UNCHANGED <<now, monitoring_data, mon_start, mon_requests, raised_in,
                   replies>>
    /\ UNCHANGED outsideComp

CompFresh ==
    /\ results = NoResults
    /\ monitoring_data = 0
    /\ mon_start = 0
    /\ mon_requests = 0
    /\ seen404 = {}
    /\ after404 = {}
    /\ raised_in = "nothing"
    /\ replies = <<>>

\* the tester, not in a comprehensive test
CompIdle ==
    /\ cpc = "idle"
    /\ CompFresh

\* a call of comprehensive_test on a new tester
CompInit ==
    /\ now = 0
    /\ cpc = "start"
    /\ CompFresh
    /\ StressIdle
    /\ MonitorIdle
    /\ StatsIdle

CompNext ==
    \/ Advance
    \/ CompStart
    \/ CompConnection
    \/ CompMemory
    \/ CompPerformance
    \/ CompLoad
    \/ CompBenchmark
    \/ CompMonitorBegin
    \/ CompMonitorLoop
    \/ CompMonitorRequest
    \/ CompStress

SpecComp == CompInit /\ [][CompNext]_vars

\* a call of run_continuous_test on a new monitor, with any arguments in the
\* bounds
MonitorInit ==
    /\ now = 0
    /\ total_duration \in -1..MaxTotalDuration
    /\ interval \in -1..MaxInterval
    /\ MonitorFresh
    /\ StressIdle
    /\ CompIdle
    /\ StatsIdle

MonitorNext ==
    \/ MonStart
    \/ MonWhile
    \/ MonPage
    \/ MonMemInfo
    \/ MonCount
    \/ MonAppend
    \/ MonCheckpoint
    \/ MonRemaining
    \/ MonSleep
    \/ MonInterrupt
    \/ MonError
    \/ MonExcept
    \/ MonFinally

SpecMonitor == MonitorInit /\ [][MonitorNext]_vars

\* a call of run_continuous_test long enough for a second tick to follow a
\* tick that took time and a full sleep
LongRunInit ==
    /\ now = 0
    /\ total_duration = MaxTotalDuration + MaxInterval
    /\ interval = MaxInterval
    /\ MonitorFresh
    /\ StressIdle
    /\ CompIdle
    /\ StatsIdle

SpecLongRun == LongRunInit /\ [][MonitorNext]_vars

\* a call of run_continuous_test with an interval of one unit and a duration
\* of CheckpointEvery + 1 units, at the loop condition after its first
\* CheckpointEvery - 2 cycles, which all succeeded and took no time
PriorCycles == CheckpointEvery - 2

CheckpointInit ==
    /\ now = PriorCycles
    /\ total_duration = CheckpointEvery + 1
    /\ interval = 1
    /\ spc = "while"
    /\ end_time = CheckpointEvery + 1
    /\ sleep_time = 1
    /\ page = NumPages + 1
    /\ cycle_results = [cycle_number |-> PriorCycles, overall_success |-> TRUE,
                        transport_failed |-> FALSE, all_200 |-> TRUE]
    /\ tests = [i \in 1..PriorCycles |->
                  [cycle_number |-> i, overall_success |-> TRUE,
                   transport_failed |-> FALSE, all_200 |-> TRUE]]
    /\ total_checks = PriorCycles
    /\ successful_checks = PriorCycles
    /\ failed_checks = 0
    /\ errors = 0
    /\ response_times = NumPages * PriorCycles
    /\ memory_readings \in {0, PriorCycles}
    /\ report = NoReport
    /\ reports = 0
    /\ returned = "nothing"
    /\ cycles_started = PriorCycles
    /\ tick_start = PriorCycles - 1
    /\ collected = 0
    /\ final_reports = 0
    /\ busy = FALSE
    /\ exit_via = "none"
    /\ StressIdle
    /\ CompIdle
    /\ StatsIdle

CheckpointNext ==
    \/ MonWhile
    \/ MonPage
    \/ MonMemInfo
    \/ MonCount
    \/ MonAppend
    \/ MonCheckpoint
    \/ MonRemaining
    \/ MonSleep
    \/ MonInterrupt
    \/ MonError
    \/ MonExcept
    \/ MonFinally

SpecCheckpoint == CheckpointInit /\ [][CheckpointNext]_vars

\* the runs of k completed cycles, each with all pages answered or with one
\* page that failed
CycleHistories(k) ==
    {[i \in 1..k |-> [cycle_number |-> i, overall_success |-> ok[i],
                      transport_failed |-> ~ok[i], all_200 |-> ok[i]]] :
       ok \in [1..k -> BOOLEAN]}

NumSucceeded(history) ==
    Cardinality({i \in DOMAIN history : history[i].overall_success})

\* generate_report, called from outside run_continuous_test (as main does in
\* its single mode)
ReportCall ==
    /\ spc = "caller"
    /\ reports < MaxReports
    /\ report' = generate_report
    /\ reports' = reports + 1
    /\ UNCHANGED <<now, total_duration, interval, spc, end_time, sleep_time, page,
                   cycle_results, tests, total_checks, successful_checks,
                   failed_checks, errors, response_times, memory_readings,
                   returned, cycles_started, tick_start, collected,
                   final_reports, busy, exit_via>>
    /\ UNCHANGED outsideMonitor

\* a monitor that has completed some cycles, in the hands of a caller that
\* asks for reports
ReportInit ==
    /\ now = 0
    /\ total_duration = 0
    /\ interval = 0
    /\ spc = "caller"
    /\ end_time = 0
    /\ sleep_time = 0
    /\ page = 0
    /\ cycle_results = NoCycle
    /\ tests \in UNION {CycleHistories(k) : k \in 0..MaxChecks}
    /\ total_checks = Len(tests)
    /\ successful_checks = NumSucceeded(tests)
    /\ failed_checks = Len(tests) - NumSucceeded(tests)
    /\ errors = Len(tests) - NumSucceeded(tests)
    /\ response_times = NumPages * Len(tests) - (Len(tests) - NumSucceeded(tests))
    /\ memory_readings \in 0..Len(tests)
    /\ report = NoReport
    /\ reports = 0
    /\ returned = "nothing"
    /\ cycles_started = Len(tests)
    /\ tick_start = 0
    /\ collected = 0
    /\ final_reports = 0
    /\ busy = FALSE
    /\ exit_via = "none"
    /\ StressIdle
    /\ CompIdle
    /\ StatsIdle

ReportNext ==
    \/ ReportCall
    \/ Advance

SpecReport == ReportInit /\ [][ReportNext]_vars

\* the two classifications applied to any series in the bounds
StatsInit ==
    /\ now = 0
    /\ values \in Series(MaxValues)
    /\ apc = "trend"
    /\ memory_trend = "unset"
    /\ memory_stability = "unset"
    /\ StressIdle
    /\ MonitorIdle
    /\ CompIdle

StatsNext ==
    \/ CalcTrend
    \/ CalcStability

SpecStats == StatsInit /\ [][StatsNext]_vars

\* a call of stress_test on a fresh tester, with any arguments in the bounds
StressInit ==
    /\ now = 0
    /\ minimal_build = FALSE
    /\ concurrent_requests \in -1..MaxWorkers
    /\ duration \in -1..MaxDuration
    /\ mpc = "start"
    /\ StressFresh
    /\ MonitorIdle
    /\ CompIdle
    /\ StatsIdle

StressNext ==
    \/ Advance
    \/ StressStart
    \/ StressSpawn
    \/ StressJoin
    \/ StressDrain
    \/ StressAnalyze
    \/ \E w \in Workers : WorkerLoop(w)
    \/ \E w \in Workers : WorkerRequest(w)
    \/ \E w \in Workers : WorkerPut(w)

SpecStress == StressInit /\ [][StressNext]_vars

\* stress_test about to analyse what its workers recorded, after a test in
\* which requests took up to the whole duration: every worker has ended and
\* the queue has been emptied into all_results
AnalyzeInit ==
    /\ now = MaxDuration
    /\ concurrent_requests = MaxWorkers
    /\ duration = MaxDuration
    /\ mpc = "analyze"
    /\ start_time = 0
    /\ started = MaxWorkers
    /\ joined = MaxWorkers
    /\ wpc = [w \in Workers |-> "done"]
    /\ local_results \in
         [Workers -> TimedWorkerRuns(MaxWorkerRequests, 0..MaxDuration)]
    /\ requests_sent = [w \in Workers |-> Len(local_results[w])]
    /\ result_queue = <<>>
    /\ all_results = Drained(local_results, MaxWorkers)
    /\ minimal_build = (NumApiDisabled(all_results) > 0)
    /\ stress_results = NoStressResults
    /\ MonitorIdle
    /\ CompIdle
    /\ StatsIdle

AnalyzeNext == StressAnalyze

SpecAnalyze == AnalyzeInit /\ [][AnalyzeNext]_vars

\* the scheduling stress_test runs under: the clock moves on, the calling
\* thread and every started worker thread keep being scheduled, and every
\* request comes back (a response, or None once the timeout of _get expires)
StressFairness ==
    /\ WF_vars(Advance)
    /\ WF_vars(StressStart)
    /\ WF_vars(StressSpawn)
    /\ WF_vars(StressJoin)
    /\ WF_vars(StressDrain)
    /\ WF_vars(StressAnalyze)
    /\ \A w \in Workers : WF_vars(WorkerLoop(w))
    /\ \A w \in Workers : WF_vars(WorkerRequest(w))
    /\ \A w \in Workers : WF_vars(WorkerPut(w))

SpecStressFair == StressInit /\ [][StressNext]_vars /\ StressFairness

\* ------------------------------------------------------------------------
\* Claims about stress_test
\* ------------------------------------------------------------------------
Last(s) == s[Len(s)]

LeftLoop(w) == wpc[w] \in {"put", "done"}

EntryKinds == {WorkerEntry(resp, RequestTime) : resp \in Responses}

CountOf(s, e) == Cardinality({i \in DOMAIN s : s[i] = e})

\* C1: a request that returns no response (timeout, refused connection) is
\* recorded as one failed attempt and does not end the worker's loop: a worker
\* whose last recorded attempt is a transport failure has left its loop only
\* if the shared deadline has passed.
C1_TransportFailureKeepsLooping ==
    \A w \in Workers :
        (LeftLoop(w) /\ local_results[w] # <<>>
           /\ Last(local_results[w]) = FailedResult) => ~DeadlineOpen

\* C3: results are collected only after every worker has been joined, and the
\* aggregated list holds each attempt each worker recorded exactly once:
\* total_requests is the sum of the workers' own numbers of recorded attempts.
C3_ResultsCollectedOnceAfterJoin ==
    /\ mpc \in {"drain", "analyze", "done"} =>
         /\ started = (IF concurrent_requests > 0 THEN concurrent_requests ELSE 0)
         /\ \A w \in 1..started : wpc[w] = "done"
    /\ mpc \in {"analyze", "done"} =>
         /\ Len(all_results)
              = SumOver([w \in Workers |-> Len(local_results[w])], Workers)
         /\ \A e \in EntryKinds :
              CountOf(all_results, e)
                = SumOver([w \in Workers |-> CountOf(local_results[w], e)], Workers)
    /\ mpc = "done" =>
         stress_results.total_requests
           = SumOver([w \in Workers |-> Len(local_results[w])], Workers)

\* two workers, one that left its loop early on its first request and one that
\* ran until the deadline, have been aggregated
C3_Witness ==
    /\ mpc = "done"
    /\ \E w, v \in Workers :
         /\ w # v
         /\ Len(local_results[w]) = 1
         /\ Last(local_results[w]) \in {FailedResult, DisabledResult}
         /\ Len(local_results[v]) = 1
         /\ Last(local_results[v]) = TimedResult(HTTP_OK, RequestTime)
    /\ stress_results.total_requests = 2

\* C4: a worker that receives 404 records exactly one result marked
\* 'api disabled', as its last one, and issues no further request; no other
\* worker is stopped by it: a worker leaves its loop only once the shared
\* deadline has passed or on its own terminating response.
C4_DisabledWorkerStopsAlone ==
    \A w \in Workers :
        /\ CountOf(local_results[w], DisabledResult) <= 1
        /\ CountOf(local_results[w], DisabledResult) = 1 =>
             /\ Last(local_results[w]) = DisabledResult
             /\ LeftLoop(w)
             /\ requests_sent[w] = Len(local_results[w])
        /\ LeftLoop(w) =>
             \/ ~DeadlineOpen
             \/ /\ local_results[w] # <<>>
                /\ Last(local_results[w]) \in {DisabledResult, FailedResult}

\* one worker has ended on a 404 while another, started with it, is about to
\* issue a further request before the deadline
C4_Witness ==
    \E w, v \in Workers :
        /\ w # v
        /\ wpc[w] = "done"
        /\ local_results[w] # <<>>
        /\ Last(local_results[w]) = DisabledResult
        /\ wpc[v] = "request"
        /\ Len(local_results[v]) >= 1
        /\ DeadlineOpen

\* ------------------------------------------------------------------------
\* Claims about run_continuous_test
\* ------------------------------------------------------------------------
CeilDiv(a, b) == (a + b - 1) \div b

ValidConfig == total_duration > 0 /\ interval > 0

LeftTheLoop == spc \in {"except_kbd", "except_exc", "finally", "returned"}

FailedEntries == {k \in DOMAIN tests : ~tests[k].overall_success}

\* C2: a user interrupt takes effect only between ticks: whenever the loop has
\* been left on an interrupt, every test cycle that was started has run to
\* completion, is in the series and is counted in total_checks.
C2_InterruptOnlyBetweenTicks ==
    exit_via = "interrupt" =>
        /\ Len(tests) = cycles_started
        /\ total_checks = cycles_started

\* C6: a transport failure during a tick never aborts the run: the tick's
\* entry is appended, marked unsuccessful, with an error record; the other
\* entries are unaffected; the loop is left on the deadline only once the
\* deadline has passed, so with instantaneous cycles a run of duration D and
\* interval I yields ceil(D / I) entries whatever failed.
C6_State ==
    /\ \A k \in DOMAIN tests :
         /\ tests[k].cycle_number = k
         /\ tests[k].transport_failed => ~tests[k].overall_success
    /\ errors >= Cardinality(FailedEntries)
    /\ failed_checks >= Cardinality(FailedEntries)
    /\ exit_via = "deadline" => now >= end_time
    /\ (exit_via = "deadline" /\ ValidConfig /\ ~busy) =>
         Len(tests) = CeilDiv(total_duration, interval)

C6_Step ==
    /\ \/ tests' = tests
       \/ /\ tests' = Append(tests, cycle_results)
          /\ spc' = "checkpoint"
    /\ (spc = "page" /\ errors' > errors) =>
         /\ spc' \in InTry
         /\ exit_via' = exit_via

C6_TransportFailureNeverAbortsRun == []C6_State /\ [][C6_Step]_vars

\* a run of two ticks ended on its deadline: the first tick failed on a
\* transport error, the second ran all the same and succeeded
C6_Witness ==
    /\ spc = "returned"
    /\ exit_via = "deadline"
    /\ Len(tests) = 2
    /\ tests[1].transport_failed
    /\ ~tests[1].overall_success
    /\ tests[2].overall_success
    /\ errors >= 1

\* C7: on every way out of the loop (deadline, user interrupt, exception) the
\* final report is generated exactly once, by the finalization step after the
\* last tick, and the call returns it.
C7_FinalReportExactlyOnce ==
    /\ final_reports = (IF spc = "returned" THEN 1 ELSE 0)
    /\ exit_via # "none" => LeftTheLoop
    /\ spc = "returned" =>
         /\ returned = "report_file"
         /\ exit_via \in {"deadline", "interrupt", "error"}
         /\ report.end_time = now
         /\ report.end_time >= tick_start + collected
    /\ spc # "returned" => returned = "nothing"

\* the run was interrupted in its second cycle and still returned its report
C7_Witness ==
    /\ spc = "returned"
    /\ exit_via = "interrupt"
    /\ cycles_started = 2
    /\ Len(tests) = 1
    /\ final_reports = 1
    /\ returned = "report_file"

\* C8: for D > 0 and I > 0 the loop performs at most ceil(D / I) + 1 ticks,
\* starts no tick at or after the deadline, never sleeps past the deadline, and
\* returns no later than the deadline plus the time of one collection.
C8_TicksAndTimeBounded ==
    (ValidConfig /\ spc # "start") =>
        /\ cycles_started <= CeilDiv(total_duration, interval) + 1
        /\ cycles_started > 0 => tick_start < end_time
        /\ spc = "sleep" => (sleep_time >= 0 /\ now + sleep_time <= end_time)
        /\ now <= end_time + collected
        /\ end_time = total_duration

\* a run of two ticks whose last collection overran the deadline
C8_Witness ==
    /\ ValidConfig
    /\ spc = "returned"
    /\ exit_via = "deadline"
    /\ cycles_started = 2
    /\ now > end_time

\* C9: a non-positive duration or interval is rejected before any run begins:
\* no tick runs, no request is issued and nothing of a run is produced.
C9_InvalidConfigRejected ==
    ~ValidConfig =>
        /\ cycles_started = 0
        /\ response_times + errors = 0
        /\ returned = "nothing"

\* ------------------------------------------------------------------------
\* Claims about comprehensive_test and the collecting functions
\* ------------------------------------------------------------------------
\* C5: once a request to an endpoint has been answered with 404, no later
\* step, tick or worker of the same run requests that endpoint again.
C5_DisabledEndpointNotRequestedAgain == after404 = {}

\* C10: a telemetry answer that cannot be parsed never raises out of the
\* collecting function; the caller gets a failed or absent sample and goes on.
C10_ParseFailureNeverEscapesCollector ==
    raised_in \notin {"get_memory_stats", "monitor_dashboard",
                      "extract_memory_info"}

\* ------------------------------------------------------------------------
\* More claims about stress_test
\* ------------------------------------------------------------------------
\* every started worker got 404 on its first request
AllFirst404 ==
    /\ concurrent_requests >= 1
    /\ \A w \in 1..concurrent_requests :
         /\ local_results[w] # <<>>
         /\ local_results[w][1] = DisabledResult

\* C11: when every worker of a stress test gets 404 on its first request,
\* every recorded result is a failure marked 'api disabled', success_rate is
\* 0, and comprehensive_test writes the stress section as skipped, not failed.
C11_AllDisabledIsSkipped ==
    (mpc = "done" /\ AllFirst404) =>
        /\ all_results # <<>>
        /\ \A i \in DOMAIN all_results : all_results[i] = DisabledResult
        /\ stress_results.success_rate[1] = 0
        /\ stress_results.successful_requests = 0
        /\ StressSection(stress_results) = "skipped"

C11_Witness ==
    /\ mpc = "done"
    /\ concurrent_requests = MaxWorkers
    /\ AllFirst404
    /\ Len(all_results) = MaxWorkers

\* ------------------------------------------------------------------------
\* Claims about _calculate_trend and _calculate_stability
\* ------------------------------------------------------------------------
\* values[lo] + ... + values[hi]
RECURSIVE SumRange(_, _, _)
SumRange(s, lo, hi) == IF lo > hi THEN 0 ELSE s[lo] + SumRange(s, lo + 1, hi)

\* the classification of the series s by the change of its mean from the
\* first floor(n/2) values to the remaining ones, at 1000 bytes (10 units)
ClaimedTrend(s) ==
    LET n  == Len(s)
        h  == n \div 2
        m1 == SumRange(s, 1, h)        \* mean(first) = m1 / h
        m2 == SumRange(s, h + 1, n)    \* mean(second) = m2 / (n - h)
        \* delta * h * (n - h)
        scaled == m2 * h - m1 * (n - h)
    IN IF n < 2 THEN "insufficient_data"
       ELSE IF scaled < 10 * h * (n - h) /\ -scaled < 10 * h * (n - h)
              THEN "stable"
       ELSE IF scaled > 0 THEN "improving"
       ELSE "declining"

TrendDone == apc \in {"stability", "done", "raised"}

\* C12: _calculate_trend returns 'insufficient_data' for fewer than 2 values;
\* otherwise, with delta = mean(remaining values) - mean(first floor(n/2)
\* values), 'stable' if |delta| < 1000, else 'improving' if delta > 0, else
\* 'declining'; [120000,119500,119000,119200,119300] is 'stable' and
\* [100000,100000,140000,140000] is 'improving'.
C12_TrendClassification ==
    /\ TrendDone => memory_trend = ClaimedTrend(values)
    /\ _calculate_trend(<<1200, 1195, 1190, 1192, 1193>>) = "stable"
    /\ _calculate_trend(<<1000, 1000, 1400, 1400>>) = "improving"

C12_Witness ==
    /\ TrendDone
    /\ values = <<1000, 1000, 1400, 1400>>
    /\ memory_trend = "improving"

\* sum of (values[i] - values[j]) ** 2 over the pairs j < i <= n; the
\* population variance of the series is this sum over len(values) ** 2
RECURSIVE PairwiseSquares(_, _)
PairwiseSquares(s, n) ==
    IF n < 2 THEN 0
    ELSE PairwiseSquares(s, n - 1)
         + SumRange([j \in 1..(n - 1) |-> (s[n] - s[j]) * (s[n] - s[j])], 1, n - 1)

\* population standard deviation / mean < 1/k, for a positive mean
ClaimedRatioBelow(s, k) ==
    PairwiseSquares(s, Len(s)) <= (Sum(s) * Sum(s) - 1) \div (k * k)

\* the bucket of the series s by the ratio of its population standard
\* deviation to its mean: 0.05, 0.10, 0.20
ClaimedStability(s) ==
    IF Len(s) < 3 THEN "insufficient_data"
    ELSE IF ClaimedRatioBelow(s, 20) THEN "excellent"
    ELSE IF ClaimedRatioBelow(s, 10) THEN "good"
    ELSE IF ClaimedRatioBelow(s, 5) THEN "moderate"
    ELSE "poor"

StabilityDone == memory_stability # "unset"

\* C13: _calculate_stability returns 'insufficient_data' for fewer than 3
\* values; otherwise, with ratio = population standard deviation / mean (the
\* mean not being zero), 'excellent' if ratio < 0.05, 'good' if ratio < 0.10,
\* 'moderate' if ratio < 0.20, else 'poor'; [100000,101000,99500] is
\* 'excellent' and [100000,150000,50000] is 'poor'.
C13_StabilityClassification ==
    /\ (StabilityDone /\ (Len(values) < 3 \/ Sum(values) > 0))
         => memory_stability = ClaimedStability(values)
    /\ _calculate_stability(<<1000, 1010, 995>>) = "excellent"
    /\ _calculate_stability(<<1000, 1500, 500>>) = "poor"

C13_Witness ==
    /\ apc = "done"
    /\ values = <<1000, 1010, 995>>
    /\ memory_stability = "excellent"

NumStatus200(rs) == Cardinality({i \in DOMAIN rs : rs[i].status = HTTP_OK})

\* C15: the reported success_rate equals 100 x (attempts whose response
\* status was exactly 200) / (recorded attempts); with no recorded attempt at
\* all the result is success_rate 0 with an error marker, not a division
\* fault.
C15_SuccessRate ==
    mpc = "done" =>
        /\ all_results # <<>> =>
             stress_results.success_rate[1] * Len(all_results)
               = 100 * NumStatus200(all_results) * stress_results.success_rate[2]
        /\ all_results = <<>> =>
             /\ stress_results.success_rate = <<0, 1>>
             /\ stress_results.error # "none"
        /\ stress_results.success_rate[2] > 0

\* two attempts recorded, one answered 200 and one answered 204
C15_Witness ==
    /\ mpc = "done"
    /\ Len(all_results) = 2
    /\ NumStatus200(all_results) = 1
    /\ \E i \in DOMAIN all_results : all_results[i].status = HTTP_NO_CONTENT
    /\ stress_results.success_rate = <<100, 2>>

\* ------------------------------------------------------------------------
\* Claims about the capability probes
\* ------------------------------------------------------------------------
\* get_memory_stats has just been called (step 2 of comprehensive_test)
AfterMemoryStats ==
    \/ cpc = "performance"
    \/ cpc = "raised" /\ raised_in = "get_memory_stats"

\* the primary endpoint answered 404 and the fallback answered 200 with a
\* JSON object
FellBackTo200 ==
    /\ Len(replies) = 2
    /\ replies[1].status = HTTP_NOT_FOUND
    /\ replies[2].status = HTTP_OK
    /\ replies[2].body # "malformed"

\* C16: in get_memory_stats, when /api/memory/detailed answers 404 and
\* /api/memory/stats answers 200 (with data), the call returns the fallback
\* data tagged with its source, "stats", instead of reporting nothing.
C16_FallbackIsReported ==
    (AfterMemoryStats /\ FellBackTo200) =>
        /\ cpc = "performance"
        /\ results.memory_stats = "stats"

C16_Witness ==
    /\ cpc = "performance"
    /\ FellBackTo200
    /\ results.memory_stats = "stats"

\* test_connection has just returned (step 1 of comprehensive_test)
AfterConnection ==
    \/ cpc = "memory"
    \/ cpc = "returned" /\ results.connection = "false"

\* C17: after test_connection, minimal_build is False only if the dashboard
\* probe answered with status 200, and when both probes return statuses that
\* are neither 2xx nor 404 the device is reported as not connected.
C17_FullModeOnlyOn200 ==
    AfterConnection =>
        /\ minimal_build = FALSE => replies[2].status = HTTP_OK
        /\ (replies[1].status = HTTP_ERROR /\ replies[2].status = HTTP_ERROR)
             => results.connection = "false"

\* ------------------------------------------------------------------------
\* Claims about generate_report
\* ------------------------------------------------------------------------
\* C18: generating the report twice in a row on an unchanged run yields
\* identical aggregate statistics (success_rate, the presence of
\* avg_response_time, the counts) both times.
C18_ReportIdempotent ==
    [][(reports >= 1 /\ reports' = reports + 1) =>
         /\ report'.success_rate = report.success_rate
         /\ report'.has_avg = report.has_avg
         /\ UNCHANGED <<total_checks, successful_checks, failed_checks, errors,
                        response_times, memory_readings, tests>>]_vars

\* a second report of a run with a success and a failure, made later than
\* the first
C18_Witness ==
    /\ reports = 2
    /\ total_checks = 2
    /\ successful_checks = 1
    /\ report.success_rate = <<100, 2>>
    /\ report.end_time = MaxWait

\* C19: generate_report, as a checkpoint or as the final report, leaves the
\* in-memory run state unchanged: it adds or modifies no field of
\* self.results.
C19_ReportLeavesRunUnchanged == [][report' = report]_vars

\* ------------------------------------------------------------------------
\* Termination of stress_test
\* ------------------------------------------------------------------------
\* C20: stress_test always eventually returns: every worker's loop ends (the
\* deadline passed, a 404, or a failed request), all workers are joined and
\* the results are analysed, for every worker count and every sequence of
\* device responses.
C20_StressTestReturns == <>(mpc = "done")

\* a returned stress test whose workers all ran until the deadline
C20_Witness ==
    /\ mpc = "done"
    /\ concurrent_requests = MaxWorkers
    /\ joined = MaxWorkers
    /\ ~DeadlineOpen
    /\ \A w \in Workers : local_results[w] # <<>> /\ Last(local_results[w]).success

\* ------------------------------------------------------------------------
\* More claims about run_continuous_test
\* ------------------------------------------------------------------------
\* C21: after each tick the loop sleeps max(0, interval - elapsed), elapsed
\* being the processing time of that tick: the sleep is never negative, and
\* whenever a tick took less than the interval the next tick starts exactly
\* one interval after that tick started.
C21_SleepKeepsCadence ==
    /\ []((ValidConfig /\ spc = "sleep") => sleep_time >= 0)
    /\ [][(ValidConfig /\ cycles_started >= 1
             /\ cycles_started' = cycles_started + 1 /\ collected < interval)
            => now - tick_start = interval]_vars

\* ------------------------------------------------------------------------
\* More claims about the capability probes and comprehensive_test
\* ------------------------------------------------------------------------
\* C22: one call of get_memory_stats issues at most two requests, and the
\* second, to the fallback endpoint, is issued if and only if the primary
\* request was answered with 404; a failing fallback is followed by no
\* further request.
C22_AtMostOneFallback ==
    AfterMemoryStats =>
        /\ Len(replies) \in {1, 2}
        /\ Len(replies) = 2 <=> replies[1].status = HTTP_NOT_FOUND

\* the primary answered 404, the fallback request failed, and the call
\* returned None
C22_Witness ==
    /\ cpc = "performance"
    /\ Len(replies) = 2
    /\ replies[1].status = HTTP_NOT_FOUND
    /\ replies[2].status = NoResponse
    /\ results.memory_stats = "none"

\* some worker recorded an 'api disabled' entry
SomeWorkerDisabled ==
    \E w \in Workers : CountOf(local_results[w], DisabledResult) > 0

\* C23: minimal_build is downgrade-only within a run: once set, no later
\* step and no interleaving of workers resets it, and several workers setting
\* it leave the same final state as one worker setting it.
C23_FlagIsDowngradeOnly ==
    /\ [][minimal_build => minimal_build']_vars
    /\ [](minimal_build <=> SomeWorkerDisabled)

\* two workers have both set the flag, and the stress test has returned
C23_Witness ==
    /\ mpc = "done"
    /\ minimal_build
    /\ \A w \in Workers : CountOf(local_results[w], DisabledResult) = 1

\* the same for the steps of comprehensive_test
FlagKeptByComp == [][minimal_build => minimal_build']_vars

\* ------------------------------------------------------------------------
\* The shared deadline of stress_test
\* ------------------------------------------------------------------------
\* worker w issues a request in this step
Requests(w) == requests_sent'[w] = requests_sent[w] + 1

\* C24 as stated: no worker begins a new request once the shared deadline
\* (start_time + duration) has passed.
C24_NoRequestAfterDeadline ==
    [][\A w \in Workers : Requests(w) => now < start_time + duration]_vars

\* C24, amended: all workers measure against one deadline, start_time +
\* duration, fixed before any worker starts; no worker passes its loop
\* condition once that deadline has passed, whenever the worker was started,
\* and every request follows such a passed condition (a request whose
\* condition was evaluated just before the deadline may begin after it).
C24_NoLoopPassAfterDeadline ==
    /\ [][started > 0 => (start_time' = start_time /\ duration' = duration)]_vars
    /\ [][\A w \in Workers :
            /\ (wpc[w] = "loop" /\ wpc'[w] = "request")
                 => now < start_time + duration
            /\ wpc'[w] = "request" => wpc[w] \in {"loop", "request"}
            /\ Requests(w) => wpc[w] = "request"]_vars

\* the second worker was started after the deadline had passed and issued no
\* request, while the first one did
C24_Witness ==
    /\ mpc = "done"
    /\ duration > 0
    /\ concurrent_requests = 2
    /\ local_results[1] # <<>>
    /\ local_results[2] = <<>>
    /\ requests_sent[2] = 0

\* ------------------------------------------------------------------------
\* Transport failures while monitoring
\* ------------------------------------------------------------------------
\* this step is a sample of monitor_dashboard that got no response
SampleGotNoResponse ==
    /\ cpc = "monitor_request"
    /\ mon_requests' = mon_requests + 1
    /\ replies'[1].status = NoResponse

\* C25: a transport failure on one sample of monitor_dashboard is never
\* fatal: while the monitoring duration has not elapsed, the loop goes on to
\* its next pass instead of returning.
C25_TransportFailureNotFatal ==
    [][(SampleGotNoResponse /\ now - mon_start < MonitorDuration)
         => cpc' = "monitor_loop"]_vars

\* ------------------------------------------------------------------------
\* The capability state in the report
\* ------------------------------------------------------------------------
\* generate_report: if results.get('minimal_build'): the report carries the
\* minimal-build note
ReportMarksMinimalBuild(res) == res.minimal_build

\* C26: the report of a run carries the capability state as finally
\* observed: once comprehensive_test has returned with minimal_build set (by
\* the probe or by a later step), its results and the report generated from
\* them mark the build as minimal.
C26_ReportCarriesFinalCapability ==
    (cpc = "returned" /\ minimal_build)
        => (results.minimal_build /\ ReportMarksMinimalBuild(results))

\* ------------------------------------------------------------------------
\* Intermediate reports
\* ------------------------------------------------------------------------
\* C27: in run_continuous_test an intermediate report is emitted after every
\* cycle whose cumulative count is a multiple of 10 and after no other cycle,
\* before the next cycle starts; emitting it changes no counter and no list
\* of the run and leaves the loop where it continues without a report.
C27_ReportEveryTenthCycle ==
    /\ [][(spc = "checkpoint" /\ spc' = "remaining") =>
            /\ reports' = reports + (IF total_checks % CheckpointEvery = 0
                                       THEN 1 ELSE 0)
            /\ UNCHANGED <<tests, total_checks, successful_checks, failed_checks,
                           cycles_started, end_time, now>>]_vars
    /\ [][(spc \in InTry /\ reports' # reports) => spc = "checkpoint"]_vars
    /\ []((spc \in InTry \ {"append", "checkpoint"})
            => reports = total_checks \div CheckpointEvery)

\* the tenth cycle was followed by a report, and the eleventh by none
C27_Witness ==
    /\ spc = "remaining"
    /\ total_checks = CheckpointEvery + 1
    /\ Len(tests) = CheckpointEvery + 1
    /\ reports = 1

\* ------------------------------------------------------------------------
\* Latency statistics of stress_test
\* ------------------------------------------------------------------------
Successes == {i \in DOMAIN all_results : all_results[i].success}
TimeOf(i) == all_results[i].response_time
LatencyKeys == {"avg_response_time", "min_response_time", "max_response_time",
                "median_response_time", "requests_per_second"}

\* C28: the latency statistics of stress_test (mean, minimum, maximum, median)
\* are those of the response times of the successful results alone, and
\* requests_per_second is their number over the duration; a failed attempt,
\* with or without a measured response time, contributes to none of them;
\* when no request succeeded no latency statistic is reported.
C28_LatencyFromSuccessesOnly ==
    mpc = "done" =>
      IF Successes = {}
        THEN DOMAIN stress_results \cap LatencyKeys = {}
        ELSE LET n   == Cardinality(Successes)
                 med == stress_results.median_response_time
             IN
             /\ stress_results.avg_response_time
                  = <<SumOver([i \in Successes |-> TimeOf(i)], Successes), n>>
             /\ \E i \in Successes : stress_results.min_response_time = TimeOf(i)
             /\ \A i \in Successes : stress_results.min_response_time <= TimeOf(i)
             /\ \E i \in Successes : stress_results.max_response_time = TimeOf(i)
             /\ \A i \in Successes : stress_results.max_response_time >= TimeOf(i)
             /\ med[2] = 2 - (n % 2)
             /\ med[2] = 1 => \E i \in Successes : med[1] = TimeOf(i)
             /\ med[2] = 2 => \E i, j \in Successes :
                                  i # j /\ med[1] = TimeOf(i) + TimeOf(j)
             /\ 2 * Cardinality({i \in Successes : TimeOf(i) * med[2] < med[1]}) <= n
             /\ 2 * Cardinality({i \in Successes : TimeOf(i) * med[2] > med[1]}) <= n
             /\ stress_results.requests_per_second = <<n, duration>>

\* a failed attempt took longer than every successful one and is in none of
\* the statistics
C28_Witness ==
    /\ mpc = "done"
    /\ Successes # {}
    /\ \E i \in DOMAIN all_results :
         /\ ~all_results[i].success
         /\ HasResponseTime(all_results[i])
         /\ all_results[i].response_time > stress_results.max_response_time

\* nothing succeeded although an attempt was timed: no latency statistic
C28_WitnessNoSuccess ==
    /\ mpc = "done"
    /\ Successes = {}
    /\ \E i \in DOMAIN all_results : HasResponseTime(all_results[i])

\* ------------------------------------------------------------------------
\* The counters of the monitor
\* ------------------------------------------------------------------------
SucceededCycles == {k \in DOMAIN tests : tests[k].overall_success}
FailedCycles == {k \in DOMAIN tests : ~tests[k].overall_success}

\* C29: whenever every cycle that was started has completed, total_checks =
\* successful_checks + failed_checks = len(tests); a cycle adds one to
\* total_checks and one entry to tests; a cycle counts as successful exactly
\* when every one of its page tests returned status 200; the error list has
\* at least one entry per failed cycle.
C29_CountersMatchTests ==
    /\ [](/\ total_checks = successful_checks + failed_checks
          /\ \A k \in DOMAIN tests : tests[k].overall_success <=> tests[k].all_200
          /\ cycles_started = Len(tests) =>
               /\ total_checks = Len(tests)
               /\ successful_checks = Cardinality(SucceededCycles)
               /\ failed_checks = Cardinality(FailedCycles)
               /\ errors >= Cardinality(FailedCycles))
    /\ [][/\ total_checks' \in {total_checks, total_checks + 1}
          /\ total_checks' = total_checks + 1 =>
               (spc = "count" /\ spc' = "append" /\ tests' = tests)
          /\ tests' # tests =>
               /\ tests' = Append(tests, cycle_results)
               /\ total_checks = Len(tests) + 1]_vars

\* two completed cycles: one with every page at 200, one in which a page
\* answered with another status
C29_Witness ==
    /\ spc = "returned"
    /\ cycles_started = 2
    /\ Len(tests) = 2
    /\ tests[1].overall_success
    /\ ~tests[2].overall_success
    /\ ~tests[2].transport_failed
    /\ total_checks = 2
    /\ successful_checks = 1
    /\ failed_checks = 1

\* ------------------------------------------------------------------------
\* The stress section of the comprehensive results
\* ------------------------------------------------------------------------
Got200 == \E w \in Workers : \E i \in DOMAIN local_results[w] :
              local_results[w][i].status = HTTP_OK
Got404 == \E w \in Workers : \E i \in DOMAIN local_results[w] :
              local_results[w][i].status = HTTP_NOT_FOUND

\* C30: the stress section is skipped only when no request succeeded and at
\* least one worker got 404; with at least one success it carries the
\* statistics, even when some worker got 404; when nothing succeeded and no
\* worker got 404 it is failed.
C30_StressSectionClassification ==
    mpc = "done" =>
      LET section == StressSection(stress_results) IN
      /\ section = "skipped" <=> (~Got200 /\ Got404)
      /\ Got200 => section = "statistics"
      /\ (~Got200 /\ ~Got404) => section = "failed"

\* one worker succeeded and the other got 404: statistics, not skipped
C30_Witness ==
    /\ mpc = "done"
    /\ Got200
    /\ Got404
    /\ minimal_build
    /\ StressSection(stress_results) = "statistics"

====
